---- MODULE Spec2Model ----
(***************************************************************************)
(* Model of src/task_1_starter_code.py: generate_pdf lays the images of a  *)
(* directory out on the pages of a PDF canvas.                             *)
(*                                                                         *)
(* Lengths are in hundredths of a PDF point (reportlab's inch is 72 pt, so *)
(* inch = 7200, 0.2*inch = 1440).  The page sizes and image shapes of the  *)
(* model are chosen so that every quantity the code computes is a whole    *)
(* number of these units and no comparison of the code is decided by a     *)
(* difference below one unit, so Python's float arithmetic and this        *)
(* integer arithmetic take the same branches.                              *)
(*                                                                         *)
(* Coordinates are reportlab's: the origin is the page's bottom-left       *)
(* corner, y grows upwards.  A placement's y is the bottom edge of the     *)
(* drawn image (current_y - target_height), its top edge is y + height.    *)
(***************************************************************************)
EXTENDS Integers, Sequences, FiniteSets

VARIABLES
    dir,             \* input_dir: file name -> file content
    page_size,       \* <<page_width, page_height>>
    pc,              \* "start" | "loop" | "done" | "aborted"
    listing,         \* what os.listdir returned to this run
    image_files,     \* the sorted list of image file names
    i,               \* position of the for loop in image_files
    current_x,
    current_y,
    max_row_height,
    shown,           \* number of c.showPage() calls of this run
    saved,           \* number of c.save() calls of this run
    strings,         \* number of c.drawString() calls of this run
    placements,      \* the c.drawImage() calls of this run, in order
    run,             \* which invocation of generate_pdf this is
    prev             \* the outcome of the previous invocation

vars == <<dir, page_size, pc, listing, image_files, i, current_x, current_y,
          max_row_height, shown, saved, strings, placements, run, prev>>

----------------------------------------------------------------------------
(* Bounds of the model *)

\* a directory holds at most MaxFiles files of arbitrary content ...
MaxFiles == 3
\* ... or at most MaxPlain images that all decode and draw
MaxPlain == 5
\* generate_pdf is invoked at most MaxRuns times on the same directory
MaxRuns == 2

----------------------------------------------------------------------------
(* Lengths *)

inch == 7200

Gutter == inch \div 5

\* the target width limited to the width between the margins
TargetWidth_Clamped ==
    IF 2 * inch > page_size[1] - 2 * inch THEN page_size[1] - 2 * inch
    ELSE 2 * inch

\* line 101
TargetWidth == 2 * inch

A4 == <<59528, 84189>>

Letter == <<(17 * inch) \div 2, 11 * inch>>

Narrow == <<3 * inch, 5 * inch>>

PageSizes == {A4, Letter, Narrow}

----------------------------------------------------------------------------
(* File names: Python strings, as sequences of code points *)

Name_1_png  == <<49, 46, 112, 110, 103>>
Name_10_png == <<49, 48, 46, 112, 110, 103>>
Name_2_PNG  == <<50, 46, 80, 78, 71>>
Name_a_jpg  == <<97, 46, 106, 112, 103>>
Name_b_jpeg == <<98, 46, 106, 112, 101, 103>>
Name_c_txt  == <<99, 46, 116, 120, 116>>
Name_d_png  == <<100, 46, 112, 110, 103>>

\* the names of the files of a directory of arbitrary content
FileNames == {Name_10_png, Name_2_PNG, Name_b_jpeg, Name_c_txt}

\* the names of the files of a directory of images that all decode and draw
\* are the first ones of this list
PlainNames == <<Name_1_png, Name_10_png, Name_2_PNG, Name_a_jpg, Name_b_jpeg,
                Name_d_png>>

\* str.lower() on one code point (ASCII)
LowerChar(c) == IF c >= 65 /\ c <= 90 THEN c + 32 ELSE c

Lower(s) == [k \in 1..Len(s) |-> LowerChar(s[k])]

EndsWith(s, suffix) ==
    /\ Len(s) >= Len(suffix)
    /\ SubSeq(s, Len(s) - Len(suffix) + 1, Len(s)) = suffix

Ext_png  == <<46, 112, 110, 103>>
Ext_jpg  == <<46, 106, 112, 103>>
Ext_jpeg == <<46, 106, 112, 101, 103>>

\* f.lower().endswith(('.png', '.jpg', '.jpeg'))
IsImageFile(f) ==
    \/ EndsWith(Lower(f), Ext_png)
    \/ EndsWith(Lower(f), Ext_jpg)
    \/ EndsWith(Lower(f), Ext_jpeg)

\* Python's < on str: lexicographic by code point, a proper prefix is smaller
RECURSIVE StrLess(_, _)
StrLess(a, b) ==
    IF b = <<>> THEN FALSE
    ELSE IF a = <<>> THEN TRUE
    ELSE IF Head(a) # Head(b) THEN Head(a) < Head(b)
    ELSE StrLess(Tail(a), Tail(b))

RECURSIVE Insert(_, _)
Insert(x, s) ==
    IF s = <<>> THEN <<x>>
    ELSE IF StrLess(x, Head(s)) THEN <<x>> \o s
    ELSE <<Head(s)>> \o Insert(x, Tail(s))

RECURSIVE SortedList(_)
SortedList(s) ==
    IF s = <<>> THEN <<>> ELSE Insert(Head(s), SortedList(Tail(s)))

RECURSIVE FilterImages(_)
FilterImages(s) ==
    IF s = <<>> THEN <<>>
    ELSE IF IsImageFile(Head(s)) THEN <<Head(s)>> \o FilterImages(Tail(s))
    ELSE FilterImages(Tail(s))

\* the list without sorted(): the directory listing's own order
ImageFiles_Unsorted(ls) == FilterImages(ls)

\* line 73: sorted([f for f in os.listdir(input_dir) if ...])
ImageFiles(ls) == SortedList(FilterImages(ls))

----------------------------------------------------------------------------
(* File contents *)

\* <<width, height>> in pixels of an image's visible bounding box
Shapes == {<<20, 10>>, <<1, 1>>, <<2, 5>>}

\* fail: where processing the file raises, if anywhere
\*   "none"  nothing raises
\*   "open"  Image.open raises (line 43)
\*   "read"  crop / convert / ImageReader raises (lines 50-96)
\*   "draw"  c.drawImage raises (line 118)
Undecodable == [w |-> 1, h |-> 1, fail |-> "open"]

Unreadable == [w |-> 1, h |-> 1, fail |-> "read"]

PlainContents == {[w |-> s[1], h |-> s[2], fail |-> "none"] : s \in Shapes}

Contents ==
    PlainContents
        \cup {[w |-> s[1], h |-> s[2], fail |-> "draw"] : s \in Shapes}
        \cup {Undecodable, Unreadable}

\* directories over the file names S: a file that is no image has one content
DirsOver(S, C) ==
    {[f \in S |-> IF IsImageFile(f) THEN g[f] ELSE Undecodable] :
        g \in [{f \in S : IsImageFile(f)} -> C]}

Directories ==
    UNION {DirsOver(S, Contents) :
               S \in {T \in SUBSET FileNames : Cardinality(T) <= MaxFiles}}
      \cup
    UNION {DirsOver({PlainNames[k] : k \in 1..n}, PlainContents) :
               n \in {m \in 0..Len(PlainNames) : m <= MaxPlain}}

\* os.listdir returns the names in arbitrary order; the model draws the
\* ascending and the descending order
RECURSIVE SetToSeq(_)
SetToSeq(S) ==
    IF S = {} THEN <<>>
    ELSE LET x == CHOOSE y \in S : TRUE IN <<x>> \o SetToSeq(S \ {x})

Reverse(s) == [k \in 1..Len(s) |-> s[Len(s) + 1 - k]]

Listings(S) == {SortedList(SetToSeq(S)), Reverse(SortedList(SetToSeq(S)))}

----------------------------------------------------------------------------
(* preprocess_image and the placement logic *)

\* the size of the image preprocess_image returns
Preprocess(c) == IF c.fail = "open" THEN <<1, 1>> ELSE <<c.w, c.h>>

\* a handler that misses what c.drawImage raises
Caught_NotDraw(kind) == kind # "draw"

\* lines 44 and 127, except Exception: which failures are caught
Caught(kind) == TRUE

\* line 102: img.height * target_width / img.width
TargetHeight(img) == (img[2] * TargetWidth) \div img[1]

\* line 105
NeedsNewRow(x, page_width) == x + TargetWidth > page_width - inch

\* the next row without the height of the row above
NextRowY_NoHeight(y, mrh) == y - Gutter

\* line 107
NextRowY(y, mrh) == y - (mrh + Gutter)

\* line 112
NeedsNewPage(y, th) == y - th < inch

\* the next column without the gutter
AdvanceX_NoGutter(x) == x + TargetWidth

\* line 122
AdvanceX(x) == x + (TargetWidth + Gutter)

Max(a, b) == IF a >= b THEN a ELSE b

\* what a run leaves in the PDF: the images drawn, in order, and the number
\* of pages opened (the first one and one per c.showPage())
Outcome == [placements |-> placements, pageCount |-> shown + 1]

----------------------------------------------------------------------------
(* generate_pdf *)

Init ==
    /\ dir \in Directories
    /\ page_size \in PageSizes
    /\ pc = "start"
    /\ listing = <<>>
    /\ image_files = <<>>
    /\ i = 1
    /\ current_x = 0
    /\ current_y = 0
    /\ max_row_height = 0
    /\ shown = 0
    /\ saved = 0
    /\ strings = 0
    /\ placements = <<>>
    /\ run = 1
    /\ prev = <<>>

\* lines 69-79 without the return of line 79: the function goes on to the
\* loop and its c.save()
GenerateEmpty_NoReturn ==
    /\ pc = "start"
    /\ \E ls \in Listings(DOMAIN dir) :
        /\ ImageFiles(ls) = <<>>
        /\ listing' = ls
        /\ image_files' = ImageFiles(ls)
    /\ strings' = strings + 1
    /\ saved' = saved + 1
    /\ current_x' = inch
    /\ current_y' = page_size[2] - inch
    /\ max_row_height' = 0
    /\ i' = 1
    /\ pc' = "loop"
    /\ UNCHANGED <<dir, page_size, shown, placements, run, prev>>

\* lines 69-79: no image file; the canvas is saved and the function returns
GenerateEmpty ==
    /\ pc = "start"
    /\ \E ls \in Listings(DOMAIN dir) :
        /\ ImageFiles(ls) = <<>>
        /\ listing' = ls
        /\ image_files' = ImageFiles(ls)
    /\ strings' = strings + 1
    /\ saved' = saved + 1
    /\ pc' = "done"
    /\ UNCHANGED <<dir, page_size, i, current_x, current_y, max_row_height,
                   shown, placements, run, prev>>

\* lines 69-86: there are image files; the layout state is set up
GenerateStart ==
    /\ pc = "start"
    /\ \E ls \in Listings(DOMAIN dir) :
        /\ ImageFiles(ls) # <<>>
        /\ listing' = ls
        /\ image_files' = ImageFiles(ls)
    /\ current_x' = inch
    /\ current_y' = page_size[2] - inch
    /\ max_row_height' = 0
    /\ i' = 1
    /\ pc' = "loop"
    /\ UNCHANGED <<dir, page_size, shown, saved, strings, placements, run,
                   prev>>

\* lines 88-128: one iteration of the for loop
ProcessImage ==
    /\ pc = "loop"
    /\ i <= Len(image_files)
    /\ LET f == image_files[i]
           c == dir[f]
           img == Preprocess(c)
           th == TargetHeight(img)
           row == NeedsNewRow(current_x, page_size[1])
           y1 == IF row THEN NextRowY(current_y, max_row_height)
                 ELSE current_y
           newpage == row /\ NeedsNewPage(y1, th)
           x2 == IF row THEN inch ELSE current_x
           y2 == IF newpage THEN page_size[2] - inch ELSE y1
           m2 == IF row THEN 0 ELSE max_row_height
           s2 == IF newpage THEN shown + 1 ELSE shown
       IN  IF c.fail = "open" /\ ~Caught("open")
           THEN /\ pc' = "aborted"
                /\ UNCHANGED <<i, current_x, current_y, max_row_height,
                               shown, placements>>
           ELSE IF c.fail = "read"
           THEN /\ pc' = IF Caught("read") THEN "loop" ELSE "aborted"
                /\ i' = IF Caught("read") THEN i + 1 ELSE i
                /\ UNCHANGED <<current_x, current_y, max_row_height, shown,
                               placements>>
           ELSE IF c.fail = "draw"
           THEN /\ pc' = IF Caught("draw") THEN "loop" ELSE "aborted"
                /\ i' = IF Caught("draw") THEN i + 1 ELSE i
                /\ current_x' = x2
                /\ current_y' = y2
                /\ max_row_height' = m2
                /\ shown' = s2
                /\ UNCHANGED placements
           ELSE /\ pc' = "loop"
                /\ i' = i + 1
                /\ placements' = Append(placements,
                       [id |-> f, pageIndex |-> s2, x |-> x2, y |-> y2 - th,
                        width |-> TargetWidth, height |-> th, img |-> img])
                /\ current_x' = AdvanceX(x2)
                /\ current_y' = y2
                /\ max_row_height' = Max(m2, th)
                /\ shown' = s2
    /\ UNCHANGED <<dir, page_size, listing, image_files, saved, strings, run,
                   prev>>

\* lines 130-131: the loop is over, the canvas is saved
Finish ==
    /\ pc = "loop"
    /\ i > Len(image_files)
    /\ saved' = saved + 1
    /\ pc' = "done"
    /\ UNCHANGED <<dir, page_size, listing, image_files, i, current_x,
                   current_y, max_row_height, shown, strings, placements, run,
                   prev>>

\* lines 161-165: generate_pdf is invoked again on the same directory, with
\* a fresh canvas
Rerun ==
    /\ pc = "done"
    /\ run < MaxRuns
    /\ prev' = <<[listing |-> listing, outcome |-> Outcome]>>
    /\ run' = run + 1
    /\ pc' = "start"
    /\ listing' = <<>>
    /\ image_files' = <<>>
    /\ i' = 1
    /\ current_x' = 0
    /\ current_y' = 0
    /\ max_row_height' = 0
    /\ shown' = 0
    /\ saved' = 0
    /\ strings' = 0
    /\ placements' = <<>>
    /\ UNCHANGED <<dir, page_size>>

Next == GenerateEmpty \/ GenerateStart \/ ProcessImage \/ Finish \/ Rerun

Spec == Init /\ [][Next]_vars

\* lines 13 and 165: the program as its main block runs it, on portrait A4
InitA4 == Init /\ page_size = A4

SpecA4 == InitA4 /\ [][Next]_vars

----------------------------------------------------------------------------
(* The page as the claims see it *)

PageWidth == page_size[1]

PageHeight == page_size[2]

\* the four margins are all the literal inch (lines 84, 85, 105, 112)
MarginLeft == inch
MarginRight == inch
MarginTop == inch
MarginBottom == inch

UsableWidth == PageWidth - MarginLeft - MarginRight

UsableHeight == PageHeight - MarginTop - MarginBottom

Top(p) == p.y + p.height

Overlap(p, q) ==
    /\ p.x < q.x + q.width
    /\ q.x < p.x + p.width
    /\ p.y < q.y + q.height
    /\ q.y < p.y + p.height

\* placement k continues the row of placement k - 1
SameRow(k) ==
    /\ k > 1
    /\ placements[k].pageIndex = placements[k - 1].pageIndex
    /\ Top(placements[k]) = Top(placements[k - 1])

PlacementsOf(f) == {k \in 1..Len(placements) : placements[k].id = f}

----------------------------------------------------------------------------
(* C1 *)

\* C1: no two placements of a run that share a page index overlap as
\* axis-aligned rectangles [x, x+width) x [y, y+height).
C1_NoOverlap ==
    \A a, b \in 1..Len(placements) :
        (a < b /\ placements[a].pageIndex = placements[b].pageIndex)
            => ~Overlap(placements[a], placements[b])

\* a finished run with two placements side by side in one row and a third
\* in a lower row of the same page
C1_Witness ==
    /\ pc = "done"
    /\ \E a, b, c \in 1..Len(placements) :
        /\ a < b /\ b < c
        /\ placements[a].pageIndex = placements[c].pageIndex
        /\ placements[b].pageIndex = placements[c].pageIndex
        /\ Top(placements[a]) = Top(placements[b])
        /\ Top(placements[c]) < Top(placements[b])
        /\ placements[c].x = placements[a].x

----------------------------------------------------------------------------
(* C2 *)

\* C2: every placement lies inside the page margins: x >= left margin,
\* x + width <= page width - right margin, and between the bottom and the
\* top margin vertically (in the spec's top-left coordinates: y >= top
\* margin and y + height <= page height - bottom margin).
C2_InsideMargins ==
    \A k \in 1..Len(placements) :
        LET p == placements[k] IN
            /\ p.x >= MarginLeft
            /\ p.x + p.width <= PageWidth - MarginRight
            /\ Top(p) <= PageHeight - MarginTop
            /\ p.y >= MarginBottom

----------------------------------------------------------------------------
(* C3 *)

\* the top of the row the next image goes to on the active page: the
\* current row while it has room to the right, else the row below it
RowTop ==
    IF NeedsNewRow(current_x, PageWidth)
    THEN NextRowY(current_y, max_row_height)
    ELSE current_y

\* C3: whenever an image is placed whose height does not fit in the
\* vertical space remaining on the active page, a new page is opened and
\* the image is placed in the first row of that page.
C3_NewPageWhenTooTall ==
    [][(/\ pc = "loop"
        /\ Len(placements') = Len(placements) + 1
        /\ RowTop - placements'[Len(placements')].height < MarginBottom)
         => (/\ shown' = shown + 1
             /\ placements'[Len(placements')].pageIndex = shown'
             /\ placements'[Len(placements')].x = MarginLeft
             /\ Top(placements'[Len(placements')]) = PageHeight - MarginTop)
      ]_vars

----------------------------------------------------------------------------
(* C4 *)

\* C4: a run over an empty list of image files ends with no placement, no
\* page opened beyond the first (page count 1) and the canvas saved exactly
\* once.
C4_EmptyInput ==
    (pc = "done" /\ image_files = <<>>)
        => (/\ placements = <<>>
            /\ shown = 0
            /\ Outcome.pageCount = 1
            /\ saved = 1)

\* a finished run over a directory that holds a file, but no image file
C4_Witness ==
    /\ pc = "done"
    /\ image_files = <<>>
    /\ DOMAIN dir # {}
    /\ saved = 1

----------------------------------------------------------------------------
(* C5 *)

\* C5: a failure on one item never aborts the run.  The run is never
\* aborted and its loop goes through the whole list; when it is done the
\* canvas has been saved exactly once, every image file whose
\* processing raised in the loop body has no placement, and every other
\* image file has exactly one: of the image itself, or of the 1x1
\* placeholder image when opening it failed.
C5_FailuresAbsorbed ==
    /\ pc # "aborted"
    /\ pc = "loop" => i <= Len(image_files) + 1
    /\ (pc = "done" /\ image_files # <<>>) => i = Len(image_files) + 1
    /\ pc = "done" =>
        /\ saved = 1
        /\ \A k \in 1..Len(image_files) :
            LET f == image_files[k]
                n == Cardinality(PlacementsOf(f))
            IN  /\ dir[f].fail \in {"read", "draw"} => n = 0
                /\ dir[f].fail = "none" =>
                    /\ n = 1
                    /\ \A j \in PlacementsOf(f) :
                        placements[j].img = <<dir[f].w, dir[f].h>>
                /\ dir[f].fail = "open" =>
                    /\ n = 1
                    /\ \A j \in PlacementsOf(f) :
                        placements[j].img = <<1, 1>>

\* a finished run in which one file failed to open, one failed to draw, and
\* a file processed after both of them was placed
C5_Witness ==
    /\ pc = "done"
    /\ \E a, b, c \in 1..Len(image_files) :
        /\ a < c /\ b < c
        /\ dir[image_files[a]].fail = "open"
        /\ dir[image_files[b]].fail = "draw"
        /\ dir[image_files[c]].fail = "none"
        /\ PlacementsOf(image_files[c]) # {}

----------------------------------------------------------------------------
(* C6 *)

\* C6 as claimed: placements are recorded in order of height descending,
\* so of two consecutive placements the earlier one is not the shorter.
C6_HeightDescending ==
    \A k \in 1..Len(placements) :
        k > 1 => placements[k - 1].height >= placements[k].height

\* C6 as amended: placements are recorded in ascending order of file name
\* (Python's str order), whatever the heights and whatever order the
\* directory listing had.
C6_FileNameOrder ==
    \A k \in 1..Len(placements) :
        k > 1 => StrLess(placements[k - 1].id, placements[k].id)

\* a finished run whose directory listing was not in sorted order and which
\* placed a shorter image before a taller one
C6_Witness ==
    /\ pc = "done"
    /\ FilterImages(listing) # image_files
    /\ \E k \in 2..Len(placements) :
        placements[k - 1].height < placements[k].height

----------------------------------------------------------------------------
(* C7 *)

----------------------------------------------------------------------------
(* C8 *)

\* C8: a second run over the same directory and page size ends with the
\* same placements in the same order (ids, page indexes, coordinates,
\* sizes) and the same page count as the first, whatever order the
\* directory listing had in either run.
C8_Deterministic ==
    (pc = "done" /\ run > 1)
        => (prev # <<>> /\ Outcome = prev[1].outcome)

\* a finished second run with several placements on more than one page whose
\* directory listing came in another order than the first run's
C8_Witness ==
    /\ pc = "done"
    /\ run = 2
    /\ prev # <<>>
    /\ prev[1].listing # listing
    /\ Len(placements) >= 3
    /\ shown >= 1

----------------------------------------------------------------------------
(* C10 *)

AllSquares ==
    \A k \in 1..Len(image_files) :
        /\ dir[image_files[k]].fail = "none"
        /\ dir[image_files[k]].w = dir[image_files[k]].h

\* C10 as claimed: 5 squares on an 8.5in x 11in page are all placed on
\* page 0 in a single row at x = 1.0, 2.2, 3.4, 4.6, 5.8 in, with one y.
C10_FiveSquaresInOneRow ==
    (pc = "done" /\ page_size = Letter /\ Len(image_files) = 5 /\ AllSquares)
        => /\ Len(placements) = 5
           /\ \A k \in 1..Len(placements) :
                /\ placements[k].pageIndex = 0
                /\ placements[k].y = placements[1].y
                /\ placements[k].x = inch + (k - 1) * (inch + Gutter)

\* C10 as amended: every placement is 2 inches wide; the first placement of
\* a row is at x = left margin, each following one at the previous x + the
\* previous width + the gutter with the same top, and a placement continues
\* the previous one's row exactly if it then ends at or before the right
\* margin.  So 5 squares on an 8.5in x 11in page are placed on page 0 in
\* two rows: at x = 1.0, 3.2, 5.4 in with their top at the top margin, and
\* at x = 1.0, 3.2 in with their top 2.2 in lower.
C10_RowLayout ==
    /\ \A k \in 1..Len(placements) :
        LET p == placements[k] IN
            /\ p.width = 2 * inch
            /\ IF SameRow(k)
               THEN p.x = placements[k - 1].x + placements[k - 1].width
                              + Gutter
               ELSE p.x = MarginLeft
            /\ k > 1 =>
                (SameRow(k) <=>
                    placements[k - 1].x + placements[k - 1].width + Gutter
                        + p.width <= PageWidth - MarginRight)
    /\ (pc = "done" /\ page_size = Letter /\ Len(image_files) = 5
            /\ AllSquares)
        => /\ Len(placements) = 5
           /\ \A k \in 1..Len(placements) : placements[k].pageIndex = 0
           /\ [k \in 1..5 |-> placements[k].x]
                = <<inch, inch + 2 * inch + Gutter,
                    inch + 2 * (2 * inch + Gutter),
                    inch, inch + 2 * inch + Gutter>>
           /\ [k \in 1..5 |-> Top(placements[k])]
                = <<PageHeight - inch, PageHeight - inch, PageHeight - inch,
                    PageHeight - inch - (2 * inch + Gutter),
                    PageHeight - inch - (2 * inch + Gutter)>>

\* a finished run over 5 squares on the 8.5in x 11in page
C10_Witness ==
    /\ pc = "done"
    /\ page_size = Letter
    /\ Len(image_files) = 5
    /\ AllSquares
    /\ Len(placements) = 5

----------------------------------------------------------------------------
(* The integer arithmetic *)

\* no comparison of the placement logic is decided by an exact tie and every
\* target height is an exact quotient, so the float arithmetic of the code
\* and the integer arithmetic of the model take the same branches
ArithmeticExact ==
    /\ (pc = "loop" /\ i <= Len(image_files)) =>
        /\ current_x + TargetWidth # PageWidth - inch
        /\ RowTop - TargetHeight(Preprocess(dir[image_files[i]])) # inch
    /\ \A k \in 1..Len(placements) :
        placements[k].height * placements[k].img[1]
            = placements[k].img[2] * placements[k].width

====
